---- MODULE Spec2Model ----
(***************************************************************************)
(* The auth state controller of frontend/src/contexts/AuthContext.jsx:     *)
(* the React state `user`, the localStorage slot "token", the router's     *)
(* navigation target, and the async calls (the mount effect, login and     *)
(* register) suspended at their `await` points.  One action per            *)
(* synchronous run of code: from a call or a resumed await up to the next  *)
(* await or the return.  The backend is outside the repository: each       *)
(* response is a nondeterministic choice.                                  *)
(***************************************************************************)
EXTENDS Naturals, FiniteSets

\* ---------------------------------------------------------------- bounds
\* Number of login/register calls made during one lifetime of the provider.
MaxCalls == 2

\* ---------------------------------------------------------------- values
\* JavaScript null: initial `user`, and localStorage.getItem of an absent key.
Null == "null"
\* JavaScript undefined: a missing JSON field, an async function's plain return.
Undefined == "undefined"
\* Token strings the backend issues (data.token).
Tokens == {"tok1", "tok2"}
\* User records the backend returns (data.user).
Users == {"Ann", "Bob"}
\* Messages the backend sends with a non-success response (errorData.message).
Messages == {"invalid credentials"}
\* Message of the Error thrown at line 31.
FetchFailedMsg == "Failed to fetch user data."
\* Message of the TypeError a rejected fetch() carries.
NetworkErrorMsg == "Failed to fetch"
\* Message of the SyntaxError a rejected res.json() carries.
ParseErrorMsg == "Unexpected end of JSON input"
\* Outcomes of one fetch(): resolved with res.ok, resolved with !res.ok, rejected.
FetchOutcomes == {"ok", "notok", "neterr"}
\* A response body that is not JSON: res.json() rejects.
BadBody == "badbody"

\* The mount effect is call 0; login and register calls are 1..MaxCalls.
Startup == 0
CallIds == 1..MaxCalls
AllCalls == {Startup} \cup CallIds

VARIABLES
    user,       \* useState `user`: Null or a user record
    userToken,  \* the token of the fetchUserData call that set `user` (Null if none)
    token,      \* localStorage "token": Null or a token string
    nav,        \* the last navigate() target (Null before any)
    calls,      \* per call: kind, pc (await point), its token, fetchUserData status, return value
    last,       \* the last step taken: its name, its call, the backend's answer it consumed
    stale       \* history, recorded when stale.on: stale.calls are the calls suspended since
                \* before the latest logout, while no later call has set user

vars == <<user, userToken, token, nav, calls, last, stale>>

\* new Error(m).message: the message, or "" when m is undefined.
ErrorMessage(m) == IF m = Undefined THEN "" ELSE m

\* A call that has not been made.
NoCall == [kind |-> "none", pc |-> "idle", token |-> Null, resolve |-> "none", ret |-> Undefined]

\* A call is suspended when it waits on the network.
Suspended(c) == calls[c].pc \in {"awaitFetch", "awaitErrJson", "awaitJson", "awaitUserFetch", "awaitUserJson"}

\* The async function of call c returns r (its promise fulfils with r).
Return(c, r) == [calls[c] EXCEPT !.pc = "returned", !.ret = r]

\* The async function of call c ends by throwing (its promise rejects).
Throw(c, msg) == [calls[c] EXCEPT !.pc = "threw", !.ret = msg]

\* The history after a step of call c: the calls of stale.calls still
\* suspended; none once a call that is not among them has set user.
StaleAfter(c) ==
    IF c \notin stale.calls /\ calls'[c].resolve = "returned" /\ calls[c].resolve = "pending"
    THEN [stale EXCEPT !.calls = {}]
    ELSE [stale EXCEPT !.calls = {d \in stale.calls : calls'[d].pc \notin {"returned", "threw"}}]

\* The history after logout: the login and startup calls suspended now.
StaleAtLogout ==
    IF stale.on
    THEN [stale EXCEPT !.calls = {c \in AllCalls : Suspended(c) /\ calls[c].kind # "register"}]
    ELSE stale

Init ==
    /\ user = Null
    /\ userToken = Null
    /\ token \in {Null} \cup Tokens
    /\ nav = Null
    /\ calls = [c \in AllCalls |-> IF c = Startup
                                  THEN [NoCall EXCEPT !.kind = "startup", !.pc = "mount"]
                                  ELSE NoCall]
    /\ last = [op |-> "init", call |-> Startup, arg |-> Null]
    /\ stale = [on |-> FALSE, calls |-> {}]

\* fetchUserData(t) up to its first await: the GET /user/me request is issued.
FetchUserDataCall(c, t) == [calls[c] EXCEPT !.pc = "awaitUserFetch", !.token = t, !.resolve = "pending"]

\* The mount effect.
Mount ==
    /\ calls[Startup].pc = "mount"
    /\ IF token # Null
       THEN /\ calls' = [calls EXCEPT ![Startup] = FetchUserDataCall(Startup, token)]
            /\ UNCHANGED <<user, userToken>>
       ELSE /\ user' = Null
            /\ userToken' = Null
            /\ calls' = [calls EXCEPT ![Startup] = Return(Startup, Undefined)]
    /\ last' = [op |-> "mount", call |-> Startup, arg |-> Null]
    /\ stale' = StaleAfter(Startup)
    /\ UNCHANGED <<token, nav>>

\* The session state logout() acts on.
Session == [user |-> user, userToken |-> userToken, token |-> token, nav |-> nav]

LogoutStateKeepsUser(s) == [s EXCEPT !.token = Null, !.nav = "/"]

LogoutStateKeepsToken(s) == [s EXCEPT !.user = Null, !.userToken = Null, !.nav = "/"]

\* The body of logout(): removeItem('token'), setUser(null), navigate("/").
LogoutState(s) == [s EXCEPT !.token = Null, !.user = Null, !.userToken = Null, !.nav = "/"]

\* logout(): synchronous, no await, no fetch.
Logout ==
    /\ LET r == LogoutState(Session)
       IN /\ token' = r.token
          /\ user' = r.user
          /\ userToken' = r.userToken
          /\ nav' = r.nav
    /\ last' = [op |-> "logout", call |-> Startup, arg |-> Null]
    /\ stale' = StaleAtLogout
    /\ UNCHANGED calls

\* Responses are delivered as tasks of the event loop, after the commit that
\* runs the mount effect.
Mounted == calls[Startup].pc # "mount"

LoginCatchRethrows(c, msg) == Throw(c, msg)

\* login's catch block: return error.message.
LoginCatch(c, msg) == Return(c, msg)

StartupCatchRethrows(c, msg) == Throw(c, msg)

\* The mount effect's catch block: console.error, then the async arrow returns.
StartupCatch(c, msg) == Return(c, Undefined)

\* login(username, password) up to its first await: POST /login is issued.
\* The credentials go to the backend unread; its answer is the response.
LoginStart(c) ==
    /\ calls[c].kind = "none"
    /\ calls' = [calls EXCEPT ![c] = [NoCall EXCEPT !.kind = "login", !.pc = "awaitFetch"]]
    /\ last' = [op |-> "loginStart", call |-> c, arg |-> Null]
    /\ stale' = StaleAfter(c)
    /\ UNCHANGED <<user, userToken, token, nav>>

\* await fetch(/login) resumes: rejected, or resolved and res.json() is awaited.
LoginResponse(c, o) ==
    /\ Mounted
    /\ calls[c].kind = "login"
    /\ calls[c].pc = "awaitFetch"
    /\ calls' = [calls EXCEPT ![c] =
                    CASE o = "neterr" -> LoginCatch(c, NetworkErrorMsg)
                      [] o = "notok"  -> [calls[c] EXCEPT !.pc = "awaitErrJson"]
                      [] o = "ok"     -> [calls[c] EXCEPT !.pc = "awaitJson"]]
    /\ last' = [op |-> "loginResponse", call |-> c, arg |-> o]
    /\ stale' = StaleAfter(c)
    /\ UNCHANGED <<user, userToken, token, nav>>

LoginErrorBodyClearsUser(c, m) ==
    /\ Mounted
    /\ calls[c].kind = "login"
    /\ calls[c].pc = "awaitErrJson"
    /\ calls' = [calls EXCEPT ![c] =
                    IF m = BadBody THEN LoginCatch(c, ParseErrorMsg)
                                   ELSE LoginCatch(c, ErrorMessage(m))]
    /\ last' = [op |-> "loginErrorBody", call |-> c, arg |-> m]
    /\ stale' = StaleAfter(c)
    /\ user' = Null
    /\ userToken' = Null
    /\ UNCHANGED <<token, nav>>

\* await res.json() of a non-success login response resumes: throw new
\* Error(errorData.message), caught by login's catch.
LoginErrorBody(c, m) ==
    /\ Mounted
    /\ calls[c].kind = "login"
    /\ calls[c].pc = "awaitErrJson"
    /\ calls' = [calls EXCEPT ![c] =
                    IF m = BadBody THEN LoginCatch(c, ParseErrorMsg)
                                   ELSE LoginCatch(c, ErrorMessage(m))]
    /\ last' = [op |-> "loginErrorBody", call |-> c, arg |-> m]
    /\ stale' = StaleAfter(c)
    /\ UNCHANGED <<user, userToken, token, nav>>

LoginBodySkipsSetItem(c, t) ==
    /\ Mounted
    /\ calls[c].kind = "login"
    /\ calls[c].pc = "awaitJson"
    /\ IF t = BadBody
       THEN /\ calls' = [calls EXCEPT ![c] = LoginCatch(c, ParseErrorMsg)]
       ELSE /\ calls' = [calls EXCEPT ![c] = FetchUserDataCall(c, t)]
    /\ UNCHANGED token
    /\ last' = [op |-> "loginBody", call |-> c, arg |-> t]
    /\ stale' = StaleAfter(c)
    /\ UNCHANGED <<user, userToken, nav>>

\* await res.json() of a successful login response resumes: setItem('token',
\* data.token), then fetchUserData(data.token) up to its first await.
LoginBody(c, t) ==
    /\ Mounted
    /\ calls[c].kind = "login"
    /\ calls[c].pc = "awaitJson"
    /\ IF t = BadBody
       THEN /\ calls' = [calls EXCEPT ![c] = LoginCatch(c, ParseErrorMsg)]
            /\ UNCHANGED token
       ELSE /\ token' = t
            /\ calls' = [calls EXCEPT ![c] = FetchUserDataCall(c, t)]
    /\ last' = [op |-> "loginBody", call |-> c, arg |-> t]
    /\ stale' = StaleAfter(c)
    /\ UNCHANGED <<user, userToken, nav>>

FetchUserDataCatchKeepsUser(c, msg) ==
    /\ UNCHANGED <<user, userToken>>
    /\ calls' = [calls EXCEPT ![c] =
                    IF calls[c].kind = "login"
                    THEN [LoginCatch(c, msg) EXCEPT !.resolve = "threw"]
                    ELSE [StartupCatch(c, msg) EXCEPT !.resolve = "threw"]]
    /\ UNCHANGED nav

FetchUserDataCatchSwallows(c, msg) ==
    /\ user' = Null
    /\ userToken' = Null
    /\ calls' = [calls EXCEPT ![c] = [Return(c, Undefined) EXCEPT !.resolve = "returned"]]
    /\ IF calls[c].kind = "login" THEN nav' = "/profile" ELSE UNCHANGED nav

\* fetchUserData's catch block: console.error, setUser(null), throw error;
\* the caller's catch block then runs in the same turn.
FetchUserDataCatch(c, msg) ==
    /\ user' = Null
    /\ userToken' = Null
    /\ calls' = [calls EXCEPT ![c] =
                    IF calls[c].kind = "login"
                    THEN [LoginCatch(c, msg) EXCEPT !.resolve = "threw"]
                    ELSE [StartupCatch(c, msg) EXCEPT !.resolve = "threw"]]
    /\ UNCHANGED nav

UserResponseRetries(c, o) ==
    /\ Mounted
    /\ calls[c].pc = "awaitUserFetch"
    /\ CASE o = "neterr" -> FetchUserDataCatch(c, NetworkErrorMsg)
         [] o = "notok"  -> /\ calls' = [calls EXCEPT ![c] = FetchUserDataCall(c, calls[c].token)]
                            /\ UNCHANGED <<user, userToken, nav>>
         [] o = "ok"     -> /\ calls' = [calls EXCEPT ![c].pc = "awaitUserJson"]
                            /\ UNCHANGED <<user, userToken, nav>>
    /\ last' = [op |-> "userResponse", call |-> c, arg |-> o]
    /\ stale' = StaleAfter(c)
    /\ UNCHANGED token

UserResponseRemovesToken(c, o) ==
    /\ Mounted
    /\ calls[c].pc = "awaitUserFetch"
    /\ CASE o = "neterr" -> FetchUserDataCatch(c, NetworkErrorMsg) /\ token' = Null
         [] o = "notok"  -> FetchUserDataCatch(c, FetchFailedMsg) /\ token' = Null
         [] o = "ok"     -> /\ calls' = [calls EXCEPT ![c].pc = "awaitUserJson"]
                            /\ UNCHANGED <<user, userToken, nav, token>>
    /\ last' = [op |-> "userResponse", call |-> c, arg |-> o]
    /\ stale' = StaleAfter(c)

\* await fetch(/user/me) resumes inside fetchUserData.
UserResponse(c, o) ==
    /\ Mounted
    /\ calls[c].pc = "awaitUserFetch"
    /\ CASE o = "neterr" -> FetchUserDataCatch(c, NetworkErrorMsg)
         [] o = "notok"  -> FetchUserDataCatch(c, FetchFailedMsg)
         [] o = "ok"     -> /\ calls' = [calls EXCEPT ![c].pc = "awaitUserJson"]
                            /\ UNCHANGED <<user, userToken, nav>>
    /\ last' = [op |-> "userResponse", call |-> c, arg |-> o]
    /\ stale' = StaleAfter(c)
    /\ UNCHANGED token

\* setUser(data.user); fetchUserData returns and its caller continues in the
\* same turn: login navigates to /profile, the mount effect's arrow returns.
FetchUserDataSuccess(c, u) ==
    /\ user' = u
    /\ userToken' = calls[c].token
    /\ calls' = [calls EXCEPT ![c] = [Return(c, Undefined) EXCEPT !.resolve = "returned"]]
    /\ IF calls[c].kind = "login" THEN nav' = "/profile" ELSE UNCHANGED nav

\* await res.json() resumes inside fetchUserData.
UserBody(c, u) ==
    /\ Mounted
    /\ calls[c].pc = "awaitUserJson"
    /\ IF u = BadBody THEN FetchUserDataCatch(c, ParseErrorMsg)
                      ELSE FetchUserDataSuccess(c, u)
    /\ last' = [op |-> "userBody", call |-> c, arg |-> u]
    /\ stale' = StaleAfter(c)
    /\ UNCHANGED token

\* register(userData) up to its first await: POST /register is issued.
RegisterStart(c) ==
    /\ calls[c].kind = "none"
    /\ calls' = [calls EXCEPT ![c] = [NoCall EXCEPT !.kind = "register", !.pc = "awaitFetch"]]
    /\ last' = [op |-> "registerStart", call |-> c, arg |-> Null]
    /\ stale' = StaleAfter(c)
    /\ UNCHANGED <<user, userToken, token, nav>>

RegisterResponseLogsIn(c, o) ==
    /\ Mounted
    /\ calls[c].kind = "register"
    /\ calls[c].pc = "awaitFetch"
    /\ CASE o = "neterr" -> /\ calls' = [calls EXCEPT ![c] = Return(c, NetworkErrorMsg)]
                            /\ UNCHANGED <<nav, user>>
         [] o = "notok"  -> /\ calls' = [calls EXCEPT ![c].pc = "awaitErrJson"]
                            /\ UNCHANGED <<nav, user>>
         [] o = "ok"     -> /\ calls' = [calls EXCEPT ![c] = Return(c, Undefined)]
                            /\ nav' = "/success"
                            /\ user' = "Ann"
    /\ last' = [op |-> "registerResponse", call |-> c, arg |-> o]
    /\ stale' = StaleAfter(c)
    /\ UNCHANGED <<userToken, token>>

\* await fetch(/register) resumes: rejected (caught, message returned), not
\* ok (res.json() is awaited), or ok (navigate('/success')).
RegisterResponse(c, o) ==
    /\ Mounted
    /\ calls[c].kind = "register"
    /\ calls[c].pc = "awaitFetch"
    /\ CASE o = "neterr" -> /\ calls' = [calls EXCEPT ![c] = Return(c, NetworkErrorMsg)]
                            /\ UNCHANGED nav
         [] o = "notok"  -> /\ calls' = [calls EXCEPT ![c].pc = "awaitErrJson"]
                            /\ UNCHANGED nav
         [] o = "ok"     -> /\ calls' = [calls EXCEPT ![c] = Return(c, Undefined)]
                            /\ nav' = "/success"
    /\ last' = [op |-> "registerResponse", call |-> c, arg |-> o]
    /\ stale' = StaleAfter(c)
    /\ UNCHANGED <<user, userToken, token>>

\* await res.json() of a non-success register response resumes: throw new
\* Error(errorData.message), caught by register's catch.
RegisterErrorBody(c, m) ==
    /\ Mounted
    /\ calls[c].kind = "register"
    /\ calls[c].pc = "awaitErrJson"
    /\ calls' = [calls EXCEPT ![c] =
                    IF m = BadBody THEN Return(c, ParseErrorMsg)
                                   ELSE Return(c, ErrorMessage(m))]
    /\ last' = [op |-> "registerErrorBody", call |-> c, arg |-> m]
    /\ stale' = StaleAfter(c)
    /\ UNCHANGED <<user, userToken, token, nav>>

Next ==
    \/ Mount
    \/ Logout
    \/ \E c \in CallIds : LoginStart(c)
    \/ \E c \in CallIds, o \in FetchOutcomes : LoginResponse(c, o)
    \/ \E c \in CallIds, m \in Messages \cup {Undefined, BadBody} : LoginErrorBody(c, m)
    \/ \E c \in CallIds, t \in Tokens \cup {BadBody} : LoginBody(c, t)
    \/ \E c \in AllCalls, o \in FetchOutcomes : UserResponse(c, o)
    \/ \E c \in AllCalls, u \in Users \cup {BadBody} : UserBody(c, u)
    \/ \E c \in CallIds : RegisterStart(c)
    \/ \E c \in CallIds, o \in FetchOutcomes : RegisterResponse(c, o)
    \/ \E c \in CallIds, m \in Messages \cup {Undefined, BadBody} : RegisterErrorBody(c, m)

Spec == Init /\ [][Next]_vars

\* No call is waiting on the network.
Quiet == \A c \in AllCalls : ~Suspended(c)

\* Sequential use: an operation is called only after the mount effect ran and
\* while no other call is suspended, so nothing interleaves with a call.
SeqNext ==
    \/ Mount
    \/ Mounted /\ Quiet /\ Logout
    \/ \E c \in CallIds : Mounted /\ Quiet /\ LoginStart(c)
    \/ \E c \in CallIds, o \in FetchOutcomes : LoginResponse(c, o)
    \/ \E c \in CallIds, m \in Messages \cup {Undefined, BadBody} : LoginErrorBody(c, m)
    \/ \E c \in CallIds, t \in Tokens \cup {BadBody} : LoginBody(c, t)
    \/ \E c \in AllCalls, o \in FetchOutcomes : UserResponse(c, o)
    \/ \E c \in AllCalls, u \in Users \cup {BadBody} : UserBody(c, u)
    \/ \E c \in CallIds : Mounted /\ Quiet /\ RegisterStart(c)
    \/ \E c \in CallIds, o \in FetchOutcomes : RegisterResponse(c, o)
    \/ \E c \in CallIds, m \in Messages \cup {Undefined, BadBody} : RegisterErrorBody(c, m)

SeqSpec == Init /\ [][SeqNext]_vars

\* The same provider with the history of logouts recorded in `stale`.
TrackInit ==
    /\ user = Null
    /\ userToken = Null
    /\ token \in {Null} \cup Tokens
    /\ nav = Null
    /\ calls = [c \in AllCalls |-> IF c = Startup
                                  THEN [NoCall EXCEPT !.kind = "startup", !.pc = "mount"]
                                  ELSE NoCall]
    /\ last = [op |-> "init", call |-> Startup, arg |-> Null]
    /\ stale = [on |-> TRUE, calls |-> {}]

TrackSpec == TrackInit /\ [][Next]_vars

\* ================================================================ claims

\* A fetchUserData call for token t is in flight.
Resolving(t) == \E c \in AllCalls : calls[c].resolve = "pending" /\ calls[c].token = t

\* The strings login and register return from their catch blocks.
ErrorStrings == Messages \cup {"", NetworkErrorMsg, FetchFailedMsg, ParseErrorMsg}

\* The last step was a failure of fetchUserData's request or of its body.
ResolveFailedStep(l) ==
    \/ l.op = "userResponse" /\ l.arg \in {"notok", "neterr"}
    \/ l.op = "userBody" /\ l.arg = BadBody

\* C1: once the mount effect has run, a token in durable storage is either
\* being resolved or is the token whose resolution produced the non-null user.
C1_TokenResolvingOrResolved ==
    (Mounted /\ token # Null) => (Resolving(token) \/ (user # Null /\ userToken = token))

\* C2: user non-null implies that a token is present in durable storage.
C2_UserImpliesToken == user # Null => token # Null

\* C3: every fetchUserData call that completes successfully leaves user
\* non-null and the durable token equal to the token it was called with.
C3_ResolveSuccessTokenMatches ==
    [][\A c \in AllCalls :
          (calls[c].resolve = "pending" /\ calls'[c].resolve = "returned")
              => (user' # Null /\ token' = calls[c].token)]_vars

\* C4: every failing fetchUserData call leaves user null, whatever it was,
\* and re-raises: its caller's catch block runs (login returns the error's
\* message without navigating, the mount effect returns).
C4_ResolveFailureClearsUser ==
    [][\A c \in AllCalls :
          (last'.call = c /\ ResolveFailedStep(last') /\ calls[c].resolve = "pending")
              => /\ user' = Null
                 /\ calls'[c].resolve = "threw"
                 /\ calls'[c].pc = "returned"
                 /\ nav' = nav
                 /\ calls[c].kind = "login" =>
                        calls'[c].ret \in {NetworkErrorMsg, FetchFailedMsg, ParseErrorMsg}]_vars

\* A fetchUserData call failed while an earlier one had set user.
C4_Witness ==
    /\ ResolveFailedStep(last)
    /\ calls[last.call].resolve = "threw"
    /\ user = Null
    /\ \E d \in AllCalls : d # last.call /\ calls[d].resolve = "returned"

\* C5: login never ends by throwing: whenever a login call ends it returns,
\* with an error message string in every failure case, and with navigation
\* to /profile in the success case.
C5_LoginNeverThrows ==
    [][\A c \in CallIds :
          (calls[c].kind = "login" /\ Suspended(c) /\ ~Suspended(c)')
              => /\ calls'[c].pc = "returned"
                 /\ IF last'.op = "userBody" /\ last'.arg \in Users
                    THEN nav' = "/profile" /\ calls'[c].ret = Undefined
                    ELSE nav' = nav /\ calls'[c].ret \in ErrorStrings]_vars

\* One login call has ended on a resolution failure and another one on
\* success, navigating to /profile.
C5_Witness ==
    /\ \E c \in CallIds : calls[c].kind = "login" /\ calls[c].pc = "returned"
                          /\ calls[c].resolve = "threw"
    /\ \E c \in CallIds : calls[c].kind = "login" /\ calls[c].pc = "returned"
                          /\ calls[c].resolve = "returned" /\ nav = "/profile"

\* C6: the steps of a login call that the backend rejects leave user, the
\* durable token and the navigation target unchanged and issue no
\* fetchUserData request; the call returns exactly the message of the
\* response.
C6_RejectedLoginFrame ==
    [][/\ (last'.op = "loginResponse" /\ last'.arg = "notok")
            => /\ UNCHANGED <<user, token, nav>>
               /\ calls'[last'.call].resolve = "none"
       /\ (last'.op = "loginErrorBody" /\ last'.arg \in Messages)
            => /\ UNCHANGED <<user, token, nav>>
               /\ calls'[last'.call].resolve = "none"
               /\ calls'[last'.call].pc = "returned"
               /\ calls'[last'.call].ret = last'.arg]_vars

\* A rejected login has returned the backend's message while a user was
\* logged in, and the session is still there.
C6_Witness ==
    /\ last.op = "loginErrorBody"
    /\ last.arg \in Messages
    /\ calls[last.call].ret = last.arg
    /\ user # Null
    /\ token # Null

\* C7: in sequential use, a login call stores the token the backend issued
\* when it receives it, and when its fetchUserData call succeeds with record
\* U durable storage still holds that token, user is U and the navigation
\* target is /profile.
C7_LoginRoundTrip ==
    [][/\ (last'.op = "loginBody" /\ last'.arg \in Tokens)
            => (token' = last'.arg /\ calls'[last'.call].token = last'.arg)
       /\ \A c \in CallIds :
            (calls[c].kind = "login" /\ last'.call = c /\ last'.op = "userBody" /\ last'.arg \in Users)
                => /\ token' = calls[c].token
                   /\ user' = last'.arg
                   /\ nav' = "/profile"
                   /\ calls'[c].pc = "returned"]_vars

\* A login call has completed with the second token over a stored first one.
C7_Witness ==
    /\ last.op = "userBody"
    /\ last.arg = "Bob"
    /\ calls[last.call].kind = "login"
    /\ calls[last.call].token = "tok2"
    /\ token = "tok2"
    /\ user = "Bob"
    /\ nav = "/profile"
    /\ calls[Startup].token = "tok1"

\* C8: logout is always enabled, and one logout step issues no request and
\* leaves no token, user null and the navigation target /.
C8_LogoutClears ==
    /\ [](ENABLED Logout)
    /\ [][last'.op = "logout"
             => (token' = Null /\ user' = Null /\ nav' = "/" /\ calls' = calls)]_vars

\* logout ran while a fetchUserData call was in flight and a user was set
\* by an earlier call.
C8_Witness ==
    /\ last.op = "logout"
    /\ token = Null
    /\ user = Null
    /\ nav = "/"
    /\ \E c \in AllCalls : calls[c].resolve = "pending"
    /\ \E c \in AllCalls : calls[c].resolve = "returned"

\* C9: logout is idempotent: from every reachable state a second logout
\* yields the state of the first (user null, no token), and every state a
\* logout step produced is a fixed point of logout.
C9_LogoutIdempotent ==
    /\ LogoutState(LogoutState(Session)) = LogoutState(Session)
    /\ LogoutState(Session).user = Null
    /\ LogoutState(Session).token = Null
    /\ last.op = "logout" => (LogoutState(Session) = Session /\ user = Null /\ token = Null)

\* A logout step has run from a logged-in past (a login call had completed).
C9_Witness ==
    /\ last.op = "logout"
    /\ LogoutState(Session) = Session
    /\ \E c \in CallIds : calls[c].kind = "login" /\ calls[c].resolve = "returned"

C11_StartupInitialization ==
    [][/\ (last'.op = "mount" /\ token = Null)
            => /\ user' = Null
               /\ calls'[Startup].pc = "returned"
               /\ \A c \in AllCalls : calls'[c].resolve = calls[c].resolve
       /\ (last'.op = "mount" /\ token # Null)
            => /\ calls'[Startup].resolve = "pending"
               /\ calls'[Startup].token = token
       /\ calls[Startup].resolve # "none"
            => /\ calls'[Startup].token = calls[Startup].token
               /\ calls'[Startup].resolve = "pending" => calls[Startup].resolve = "pending"
       /\ (last'.call = Startup /\ last'.op = "userBody" /\ last'.arg \in Users)
            => (user' = last'.arg /\ calls'[Startup].pc = "returned")
       /\ (last'.call = Startup /\ ResolveFailedStep(last'))
            => (user' = Null /\ calls'[Startup].pc = "returned")]_vars

\* The startup resolution of a stored token has failed: the effect returned
\* and user is null.
C11_Witness ==
    /\ last.call = Startup
    /\ ResolveFailedStep(last)
    /\ calls[Startup].pc = "returned"
    /\ calls[Startup].resolve = "threw"
    /\ calls[Startup].token = token
    /\ user = Null

\* The last step belongs to a login call.
LoginStep(l) ==
    \/ l.op \in {"loginStart", "loginResponse", "loginErrorBody", "loginBody"}
    \/ l.op \in {"userResponse", "userBody"} /\ calls[l.call].kind = "login"

\* C12: in a login call the token is in durable storage when the
\* fetchUserData request for it is issued, and the only step of a login call
\* that navigates is the successful completion of its fetchUserData call,
\* which navigates to /profile; every other step of the call, failures
\* included, leaves the navigation target alone.
C12_LoginOrdering ==
    [][/\ \A c \in CallIds :
            (calls[c].kind = "login" /\ calls[c].resolve = "none" /\ calls'[c].resolve # "none")
                => (calls'[c].resolve = "pending" /\ token' = calls'[c].token)
       /\ LoginStep(last')
            => IF last'.op = "userBody" /\ last'.arg \in Users
               THEN nav' = "/profile" /\ calls'[last'.call].resolve = "returned"
               ELSE nav' = nav /\ calls'[last'.call].resolve # "returned"]_vars

\* A login call stored its token, its fetchUserData call failed, and no
\* navigation has happened.
C12_Witness ==
    /\ ResolveFailedStep(last)
    /\ calls[last.call].kind = "login"
    /\ calls[last.call].token = token
    /\ nav = Null

\* C16: the durable token changes only in the login step that receives the
\* issued token (to that token) and in logout (to none); those two steps
\* always leave it so, and every other step leaves it unchanged.
C16_TokenWriters ==
    [][/\ (last'.op = "loginBody" /\ last'.arg \in Tokens) => token' = last'.arg
       /\ last'.op = "logout" => token' = Null
       /\ ~(last'.op = "loginBody" /\ last'.arg \in Tokens) /\ last'.op # "logout"
            => token' = token]_vars

\* A token whose resolution failed at startup is still in storage.
C16_Witness ==
    /\ last.call = Startup
    /\ ResolveFailedStep(last)
    /\ token # Null
    /\ user = Null
    /\ nav = Null
    /\ \A c \in CallIds : calls[c].kind = "none"

\* The abstract state of the controller.
AbsState ==
    IF user # Null THEN "LoggedIn"
    ELSE IF \E c \in AllCalls : calls[c].resolve = "pending" THEN "Resolving"
    ELSE "LoggedOut"

\* The abstract state after the step.
AbsStateNext ==
    IF user' # Null THEN "LoggedIn"
    ELSE IF \E c \in AllCalls : calls'[c].resolve = "pending" THEN "Resolving"
    ELSE "LoggedOut"

\* The last step was the success of a fetchUserData call.
ResolveSucceededStep(l) == l.op = "userBody" /\ l.arg \in Users

\* C13 as stated: every change of abstract state is LoggedOut to LoggedIn
\* by a successful login (whose first half, the login call issuing its
\* fetchUserData request, may show as LoggedOut to Resolving), LoggedOut to
\* Resolving by the mount effect finding a token, Resolving to LoggedIn on
\* resolve success, Resolving to LoggedOut on resolve failure, or LoggedIn to
\* LoggedOut by logout.
C13_ListedTransitionsOnly ==
    [][AbsStateNext # AbsState =>
          \/ AbsState = "LoggedOut" /\ AbsStateNext = "LoggedIn"
                /\ ResolveSucceededStep(last') /\ calls[last'.call].kind = "login"
          \/ AbsState = "LoggedOut" /\ AbsStateNext = "Resolving"
                /\ last'.op \in {"mount", "loginBody"}
          \/ AbsState = "Resolving" /\ AbsStateNext = "LoggedIn" /\ ResolveSucceededStep(last')
          \/ AbsState = "Resolving" /\ AbsStateNext = "LoggedOut" /\ ResolveFailedStep(last')
          \/ AbsState = "LoggedIn" /\ AbsStateNext = "LoggedOut" /\ last'.op = "logout"]_vars

\* C13 amended: a failed fetchUserData call and logout both leave LoggedIn,
\* for LoggedOut or, while another fetchUserData call is in flight, for
\* Resolving; LoggedOut is left only for Resolving, by the mount effect
\* finding a token or by a login call storing its issued token; Resolving is
\* left for LoggedIn on resolve success and for LoggedOut on resolve failure;
\* no step goes from LoggedOut to LoggedIn.
C13_Transitions ==
    [][AbsStateNext # AbsState =>
          \/ AbsState = "LoggedOut" /\ AbsStateNext = "Resolving"
                /\ \/ last'.op = "mount"
                   \/ last'.op = "loginBody" /\ last'.arg \in Tokens
          \/ AbsState = "Resolving" /\ AbsStateNext = "LoggedIn" /\ ResolveSucceededStep(last')
          \/ AbsState = "Resolving" /\ AbsStateNext = "LoggedOut" /\ ResolveFailedStep(last')
          \/ AbsState = "LoggedIn" /\ AbsStateNext \in {"LoggedOut", "Resolving"}
                /\ (last'.op = "logout" \/ ResolveFailedStep(last'))]_vars

\* The fetchUserData call of a login made while logged in (by the startup
\* resolution) has failed: the controller went from LoggedIn to LoggedOut.
C13_Witness ==
    /\ ResolveFailedStep(last)
    /\ calls[last.call].kind = "login"
    /\ calls[Startup].resolve = "returned"
    /\ \A c \in CallIds : c # last.call => calls[c].kind = "none"
    /\ nav = Null
    /\ AbsState = "LoggedOut"

\* The backend answers the request call c waits on: the response of its
\* fetch, or the body of its res.json().
Respond(c) ==
    \/ \E o \in FetchOutcomes : LoginResponse(c, o)
    \/ \E m \in Messages \cup {Undefined, BadBody} : LoginErrorBody(c, m)
    \/ \E t \in Tokens \cup {BadBody} : LoginBody(c, t)
    \/ \E o \in FetchOutcomes : UserResponse(c, o)
    \/ \E u \in Users \cup {BadBody} : UserBody(c, u)
    \/ \E o \in FetchOutcomes : RegisterResponse(c, o)
    \/ \E m \in Messages \cup {Undefined, BadBody} : RegisterErrorBody(c, m)

\* The mount effect runs after the first commit, and the backend eventually
\* answers every request issued.
FairSpec == Spec /\ WF_vars(Mount) /\ \A c \in AllCalls : WF_vars(Respond(c))

\* The steps that resume a suspended call.
ResponseOps == {"loginResponse", "loginErrorBody", "loginBody", "userResponse", "userBody",
                "registerResponse", "registerErrorBody"}

\* C15: when the backend eventually answers every request, every suspended
\* call (login, register, the startup resolution) eventually ends; and a
\* suspended call is moved by nothing but an answer to its own request:
\* there is no timeout and no cancellation step.
C15_CallsComplete ==
    /\ \A c \in AllCalls : Suspended(c) ~> (calls[c].pc \in {"returned", "threw"})
    /\ [][\A c \in AllCalls :
             (Suspended(c) /\ calls'[c] # calls[c])
                 => (last'.call = c /\ last'.op \in ResponseOps)]_vars

\* The startup resolution, a login call and a register call have all ended.
C15_Witness ==
    /\ calls[Startup].resolve \in {"returned", "threw"}
    /\ \E c \in CallIds : calls[c].kind = "login" /\ calls[c].pc = "returned"
    /\ \E c \in CallIds : calls[c].kind = "register" /\ calls[c].pc = "returned"

\* C14: after a logout, user stays null until a login call started after
\* that logout succeeds: no call that was already suspended when logout ran
\* (the startup resolution, an earlier login) sets user.
C14_NoStaleResolve ==
    [][ResolveSucceededStep(last') => last'.call \notin stale.calls]_vars
====
